---- MODULE Spec2Model ----
(***************************************************************************)
(* A model of scripts/predicting_the_past_import.py: the name normalisers, *)
(* the coordinate merge, the region / deployment filter, the lifetime and  *)
(* build-offset derivations and the reactor / deployment document writers. *)
(*                                                                         *)
(* Python strings are sequences of one-character strings, so that lower(), *)
(* find(), replace(), strip(), split(), join(), float() and the date       *)
(* parser are computed character by character.                             *)
(***************************************************************************)
EXTENDS Integers, Sequences, FiniteSets, TLC

VARIABLES
    call,          \* the library call made by this run: [fn, args, result]
    pris_csv,      \* merge_coordinates: rows of the PRIS reactor file
    webscrape,     \* merge_coordinates: rows of reactors_coordinates
    row_is_view,   \* merge_coordinates: does iterrows() hand out views?
    merged_csv,    \* merge_coordinates: rows of reactors_pris_2016.csv
    in_csv,        \* obtain/deploy_reactors: rows of the reactor csv file
    region,        \* obtain/deploy_reactors: the region argument
    reactors_dir,  \* files of cyclus/input/<region>/reactors
    buildtime,     \* the dictionary deploy_reactors returns
    deployinst,    \* <country>/deployinst.xml under the deployment path
    inclusions,    \* inclusions.xml under the deployment path
    fs,            \* the file system the document emitters write to
    pc             \* position of the script

vars == <<call, pris_csv, webscrape, row_is_view, merged_csv,
          in_csv, region, reactors_dir, buildtime, deployinst, inclusions,
          fs, pc>>

None == "None"

(***************************************************************************)
(* Python str operations                                                   *)
(***************************************************************************)
\* The letters str.lower() and str.upper() change; "O^" and "o^" stand for
\* the O and o with macron of the edge-case table, "o'" for its o with
\* acute.
UPPER == <<"A","B","C","D","E","F","G","H","I","J","K","L","M",
           "N","O","P","Q","R","S","T","U","V","W","X","Y","Z","O^">>
LOWER == <<"a","b","c","d","e","f","g","h","i","j","k","l","m",
           "n","o","p","q","r","s","t","u","v","w","x","y","z","o^">>

Digits == <<"0","1","2","3","4","5","6","7","8","9">>

Whitespace == {" ", "\t", "\n"}

IsDigit(c) == \E i \in 1..10 : Digits[i] = c

DigitVal(c) == (CHOOSE i \in 1..10 : Digits[i] = c) - 1

lower_char(c) ==
    IF \E i \in DOMAIN UPPER : UPPER[i] = c
    THEN LOWER[CHOOSE i \in DOMAIN UPPER : UPPER[i] = c]
    ELSE c

upper_char(c) ==
    IF \E i \in DOMAIN UPPER : LOWER[i] = c
    THEN UPPER[CHOOSE i \in DOMAIN UPPER : LOWER[i] = c]
    ELSE c

\* str.lower()
lower(s) == [i \in 1..Len(s) |-> lower_char(s[i])]

\* str.upper()
upper(s) == [i \in 1..Len(s) |-> upper_char(s[i])]

\* s[k:] with 0 <= k
From(s, k) == SubSeq(s, k + 1, Len(s))

\* s[:k] with 0 <= k
Upto(s, k) == SubSeq(s, 1, IF k < Len(s) THEN k ELSE Len(s))

StartsWith(s, sub) == Len(sub) <= Len(s) /\ SubSeq(s, 1, Len(sub)) = sub

\* str.find(sub): the 0-based index of the first occurrence, or -1
find(s, sub) ==
    LET hits == {i \in 0..(Len(s) - Len(sub)) : StartsWith(From(s, i), sub)}
    IN IF hits = {} THEN -1 ELSE CHOOSE i \in hits : \A j \in hits : i <= j

\* sub in s
Contains(s, sub) == find(s, sub) # -1

RECURSIVE replace(_, _, _)
\* str.replace(old, new): one left-to-right pass over non-overlapping
\* occurrences of a non-empty old
replace(s, old, new) ==
    IF Len(s) < Len(old) THEN s
    ELSE IF StartsWith(s, old)
         THEN new \o replace(From(s, Len(old)), old, new)
         ELSE <<Head(s)>> \o replace(Tail(s), old, new)

RECURSIVE lstrip(_)
lstrip(s) ==
    IF s # <<>> /\ Head(s) \in Whitespace THEN lstrip(Tail(s)) ELSE s

RECURSIVE rstrip(_)
rstrip(s) ==
    IF s # <<>> /\ s[Len(s)] \in Whitespace
    THEN rstrip(SubSeq(s, 1, Len(s) - 1)) ELSE s

\* str.strip()
strip(s) == lstrip(rstrip(s))

RECURSIVE split_from(_, _)
\* str.split(): the maximal runs of non-whitespace characters, cur being
\* the run collected so far
split_from(s, cur) ==
    IF s = <<>> THEN (IF cur = <<>> THEN <<>> ELSE <<cur>>)
    ELSE IF Head(s) \in Whitespace
         THEN (IF cur = <<>> THEN <<>> ELSE <<cur>>) \o split_from(Tail(s), <<>>)
         ELSE split_from(Tail(s), Append(cur, Head(s)))

split(s) == split_from(s, <<>>)

RECURSIVE join(_, _)
\* sep.join(words)
join(sep, words) ==
    IF words = <<>> THEN <<>>
    ELSE IF Len(words) = 1 THEN words[1]
    ELSE words[1] \o sep \o join(sep, Tail(words))

\* int(str) raises no ValueError: an optionally signed run of digits,
\* surrounding whitespace allowed
is_int(str) ==
    LET t == strip(str)
        d == IF t # <<>> /\ t[1] \in {"+", "-"} THEN Tail(t) ELSE t
    IN d # <<>> /\ \A i \in 1..Len(d) : IsDigit(d[i])

(***************************************************************************)
(* Name normalisers                                                        *)
(***************************************************************************)
blacklist == <<
    <<"n","u","c","l","e","a","r">>,
    <<"p","o","w","e","r">>,
    <<"p","l","a","n","t">>,
    <<"g","e","n","e","r","a","t","i","n","g">>,
    <<"s","t","a","t","i","o","n">>,
    <<"r","e","a","c","t","o","r">>,
    <<"a","t","o","m","i","c">>,
    <<"e","n","e","r","g","y">>,
    <<"c","e","n","t","e","r">>,
    <<"e","l","e","c","t","r","i","c">> >>

RECURSIVE remove_blacklisted(_, _)
\* the loop of sanitize_webscrape_name: word i, then the words after it
remove_blacklisted(name, i) ==
    IF i > Len(blacklist) THEN name
    ELSE remove_blacklisted(replace(name, blacklist[i], <<>>), i + 1)

\* a faulty variant: no whitespace clean-up after the removals
sanitize_webscrape_name_nostrip(name) == remove_blacklisted(lower(name), 1)

sanitize_webscrape_name(name) ==
    join(<<" ">>, split(strip(remove_blacklisted(lower(name), 1))))

sanitize_pris_name(name) ==
    LET pris_name == lower(name)
        first == find(pris_name, <<"-">>)
    IN IF first # -1 /\ is_int(<<pris_name[Len(pris_name)]>>)
       THEN LET second == find(From(pris_name, first + 1), <<"-">>)
            IN IF second # -1
               THEN Upto(pris_name, first + second)
               ELSE Upto(pris_name, first)
       ELSE pris_name

(***************************************************************************)
(* The runs of the normalisers: one call per run, on a name put together   *)
(* from at most MaxFrags fragments.                                        *)
(***************************************************************************)
MaxFrags == 3

RECURSIVE Concats(_, _)
Concats(F, n) ==
    IF n = 0 THEN {<<>>}
    ELSE LET P == Concats(F, n - 1) IN P \cup {p \o f : p \in P, f \in F}

WebFragments == {
    <<"n","u","c">>, <<"l","e","a","r">>, <<"P","o","w","e","r">>,
    <<" ">>, <<"O","i">>, <<"S","t","a","t","i","o","n","\t">> }

PrisFragments == {
    <<"O","H","I","-">>, <<"K","o","r","i","-">>, <<"1">>,
    <<"N","e","c","k"," ">>, <<"2","B">>, <<"S","t",".">> }

WebNames == Concats(WebFragments, MaxFrags)

PrisNames == Concats(PrisFragments, MaxFrags)

NoFiles ==
    /\ pris_csv = <<>> /\ webscrape = <<>> /\ row_is_view = FALSE
    /\ merged_csv = None
    /\ in_csv = <<>> /\ region = <<>> /\ reactors_dir = None
    /\ buildtime = None /\ deployinst = None /\ inclusions = None
    /\ fs = None

FilesUnchanged ==
    UNCHANGED <<pris_csv, webscrape, row_is_view, merged_csv, in_csv, region,
                reactors_dir, buildtime, deployinst, inclusions, fs>>

InitCall == call = [fn |-> None] /\ pc = "start" /\ NoFiles

Ret(fn, args, result) ==
    [fn |-> fn, args |-> args, raised |-> None, result |-> result]

Returned(fn) == pc = "done" /\ call.fn = fn /\ call.raised = None

Raised(fn) == pc = "done" /\ call.fn = fn /\ call.raised # None

CallSanitizeWebscrapeName ==
    /\ pc = "start"
    /\ \E name \in WebNames :
           call' = Ret("sanitize_webscrape_name", <<name>>,
                       sanitize_webscrape_name(name))
    /\ pc' = "done"
    /\ FilesUnchanged

CallSanitizePrisName ==
    /\ pc = "start"
    /\ \E name \in PrisNames :
           call' = Ret("sanitize_pris_name", <<name>>, sanitize_pris_name(name))
    /\ pc' = "done"
    /\ FilesUnchanged

NextNames == CallSanitizeWebscrapeName \/ CallSanitizePrisName

SpecNames == InitCall /\ [][NextNames]_vars

(***************************************************************************)
(* C6, C7                                                                  *)
(***************************************************************************)
CountOf(s, c) == Cardinality({i \in 1..Len(s) : s[i] = c})

\* the index (1-based) of the k-th occurrence of c in s
NthIndex(s, c, k) ==
    CHOOSE i \in 1..Len(s) :
        s[i] = c /\ Cardinality({j \in 1..i : s[j] = c}) = k

EndsInDigit(s) == s # <<>> /\ IsDigit(s[Len(s)])

\* C6: a name with a hyphen that ends in a digit comes back lower-cased and
\* cut at its unit suffix: before the hyphen of a single-hyphen name, before
\* the second hyphen of a double-hyphen name; a name with no hyphen, or not
\* ending in a digit, comes back lower-cased and otherwise unchanged.
C6_UnitSuffixStripped ==
    Returned("sanitize_pris_name") =>
        LET n == lower(call.args[1])
            hyphens == CountOf(n, "-")
        IN IF hyphens > 0 /\ EndsInDigit(n)
           THEN /\ hyphens = 1 => call.result = SubSeq(n, 1, NthIndex(n, "-", 1) - 1)
                /\ hyphens = 2 => call.result = SubSeq(n, 1, NthIndex(n, "-", 2) - 1)
           ELSE call.result = n

NoBlacklisted(s) == \A i \in 1..Len(blacklist) : ~Contains(s, blacklist[i])

WhitespaceNormal(s) ==
    /\ s # <<>> => s[1] \notin Whitespace /\ s[Len(s)] \notin Whitespace
    /\ \A i \in 1..(Len(s) - 1) : ~(s[i] \in Whitespace /\ s[i + 1] \in Whitespace)

\* C7 as stated: the result of sanitize_webscrape_name contains no
\* blacklisted word, has no leading, trailing or doubled whitespace, and is
\* a fixed point of sanitize_webscrape_name.
C7_CleanAndIdempotent ==
    Returned("sanitize_webscrape_name") =>
        /\ NoBlacklisted(call.result)
        /\ WhitespaceNormal(call.result)
        /\ sanitize_webscrape_name(call.result) = call.result

\* C7 as amended: the result has no leading, trailing or doubled
\* whitespace and no upper-case letter, and it is a fixed point of
\* sanitize_webscrape_name whenever it contains no blacklisted word.
C7_WhitespaceNormalAndConditionallyIdempotent ==
    Returned("sanitize_webscrape_name") =>
        /\ WhitespaceNormal(call.result)
        /\ lower(call.result) = call.result
        /\ NoBlacklisted(call.result) =>
               sanitize_webscrape_name(call.result) = call.result

\* a name with a blacklisted word and untidy whitespace whose result is a
\* non-empty clean name
C7_Witness ==
    /\ Returned("sanitize_webscrape_name")
    /\ ~NoBlacklisted(lower(call.args[1]))
    /\ ~WhitespaceNormal(call.args[1])
    /\ call.result # <<>>
    /\ NoBlacklisted(call.result)

(***************************************************************************)
(* float() and dateutil.parser.parse()                                     *)
(***************************************************************************)
AllDigits(s) == \A i \in 1..Len(s) : IsDigit(s[i])

RECURSIVE DigitsVal(_)
DigitsVal(s) ==
    IF s = <<>> THEN 0 ELSE 10 * DigitsVal(SubSeq(s, 1, Len(s) - 1)) + DigitVal(s[Len(s)])

\* float(str) on decimal notation: surrounding whitespace, an optional
\* sign, digits with at most one point and a digit on one side of it.
\* ok = FALSE is the ValueError; the value is whole + (a positive
\* fraction iff frac), negated iff neg.
float(str) ==
    LET t == strip(str)
        signed == t # <<>> /\ t[1] \in {"+", "-"}
        d == IF signed THEN Tail(t) ELSE t
        dot == find(d, <<".">>)
        ip == IF dot = -1 THEN d ELSE Upto(d, dot)
        fp == IF dot = -1 THEN <<>> ELSE From(d, dot + 1)
        ok == AllDigits(ip) /\ AllDigits(fp) /\ Len(ip) + Len(fp) > 0
    IN [ok |-> ok,
        neg |-> ok /\ signed /\ t[1] = "-",
        whole |-> IF ok THEN DigitsVal(ip) ELSE 0,
        frac |-> ok /\ \E i \in 1..Len(fp) : fp[i] # "0"]

\* float(str) > n, for an n > 0
FloatGt(f, n) == ~f.neg /\ (f.whole > n \/ (f.whole = n /\ f.frac))

\* float(str) >= n, for an n > 0
FloatGe(f, n) == ~f.neg /\ f.whole >= n

IsLeap(y) == y % 4 = 0 /\ (y % 100 # 0 \/ y % 400 = 0)

DaysInMonth(y, m) ==
    IF m = 2 THEN (IF IsLeap(y) THEN 29 ELSE 28)
    ELSE IF m \in {4, 6, 9, 11} THEN 30 ELSE 31

\* the day of the run, from which dateutil takes the month and the day
\* that the string does not name
Today == [month |-> 1, day |-> 1]

\* dateutil.parser.parse(str) on the two shapes the reactor file uses,
\* YYYY-MM-DD and YYYY; ok = FALSE is the ParserError (a ValueError) that
\* every other string of the runs below, and a day the month does not
\* have, ends in.
date_parse(str) ==
    LET t == strip(str)
        bad == [ok |-> FALSE, year |-> 0, month |-> 0, day |-> 0]
    IN IF Len(t) = 4 /\ AllDigits(t)
       THEN [ok |-> TRUE, year |-> DigitsVal(t),
             month |-> Today.month, day |-> Today.day]
       ELSE IF /\ Len(t) = 10 /\ t[5] = "-" /\ t[8] = "-"
               /\ AllDigits(SubSeq(t, 1, 4))
               /\ AllDigits(SubSeq(t, 6, 7))
               /\ AllDigits(SubSeq(t, 9, 10))
            THEN LET y == DigitsVal(SubSeq(t, 1, 4))
                     m == DigitsVal(SubSeq(t, 6, 7))
                     d == DigitsVal(SubSeq(t, 9, 10))
                 IN IF y >= 1 /\ m \in 1..12 /\ d \in 1..DaysInMonth(y, m)
                    THEN [ok |-> TRUE, year |-> y, month |-> m, day |-> d]
                    ELSE bad
            ELSE bad

(***************************************************************************)
(* Region / deployment filter                                              *)
(***************************************************************************)
\* A row of the reactor file is a record: country is row[0], name row[1],
\* type row[2], capacity row[3], comm_date row[10], shutdown_date row[11],
\* lat row[13] and lon row[14].
Row(country, name, type, capacity, comm_date, shutdown_date) ==
    [country |-> country, name |-> name, type |-> type, capacity |-> capacity,
     comm_date |-> comm_date, shutdown_date |-> shutdown_date,
     lat |-> <<>>, lon |-> <<>>]

FloatError == "ValueError: could not convert string to float"
RegionError == "ValueError: is not a valid region"

\* a returned value, or the exception that left the function
Value(v) == [raised |-> None, value |-> v]
Raise(e) == [raised |-> e, value |-> None]

\* a faulty variant: the capacity threshold is inclusive
confirm_deployment_inclusive(date_str, capacity) ==
    LET Compare(mwe) ==
            IF ~mwe.ok THEN Raise(FloatError)
            ELSE Value(FloatGe(mwe, 400) /\ date_parse(date_str).ok)
    IN IF Len(date_str) > 4 THEN Compare(float(capacity)) ELSE Value(FALSE)

\* a faulty variant: the conversion of the capacity is inside the try
confirm_deployment_swallow(date_str, capacity) ==
    LET Compare(mwe) == mwe.ok /\ FloatGt(mwe, 400) /\ date_parse(date_str).ok
    IN Value(Len(date_str) > 4 /\ Compare(float(capacity)))

\* mwe is float(capacity), which is evaluated only after len(date_str) > 4
confirm_deployment(date_str, capacity) ==
    LET Compare(mwe) ==
            IF ~mwe.ok THEN Raise(FloatError)
            ELSE IF FloatGt(mwe, 400)
                 THEN Value(date_parse(date_str).ok)
                 ELSE Value(FALSE)
    IN IF Len(date_str) > 4 THEN Compare(float(capacity)) ELSE Value(FALSE)

ASIA == {<<"I","R","A","N">>, <<"J","A","P","A","N">>, <<"K","A","Z","A","K","H","S","T","A","N">>,
         <<"B","A","N","G","L","A","D","E","S","H">>, <<"C","H","I","N","A">>, <<"I","N","D","I","A">>,
         <<"U","N","I","T","E","D"," ","A","R","A","B"," ","E","M","I","R","A","T","E","S">>, <<"V","I","E","T","N","A","M">>,
         <<"P","A","K","I","S","T","A","N">>, <<"P","H","I","L","I","P","P","I","N","E","S">>, <<"S","O","U","T","H"," ","K","O","R","E","A">>}

UNITED_STATES == {<<"U","N","I","T","E","D"," ","S","T","A","T","E","S">>}

SOUTH_AMERICA == {<<"A","R","G","E","N","T","I","N","A">>, <<"B","R","A","Z","I","L">>}

NORTH_AMERICA == {<<"C","A","N","A","D","A">>, <<"M","E","X","I","C","O">>, <<"U","N","I","T","E","D"," ","S","T","A","T","E","S">>}

EUROPE == {<<"U","K","R","A","I","N","E">>, <<"U","N","I","T","E","D"," ","K","I","N","G","D","O","M">>,
           <<"P","O","L","A","N","D">>, <<"R","O","M","A","N","I","A">>, <<"R","U","S","S","I","A">>,
           <<"B","E","L","A","R","U","S">>, <<"B","E","L","G","I","U","M">>, <<"B","U","L","G","A","R","I","A">>,
           <<"G","E","R","M","A","N","Y">>, <<"I","T","A","L","Y">>, <<"N","E","T","H","E","R","L","A","N","D","S">>,
           <<"S","W","E","D","E","N">>, <<"S","W","I","T","Z","E","R","L","A","N","D">>, <<"T","U","R","K","E","Y">>,
           <<"S","L","O","V","E","N","I","A">>, <<"S","O","V","I","E","T"," ","U","N","I","O","N">>, <<"S","P","A","I","N">>,
           <<"C","Z","E","C","H","O","S","L","O","V","A","K","I","A">>, <<"F","I","N","L","A","N","D">>, <<"F","R","A","N","C","E">>}

AFRICA == {<<"E","G","Y","P","T">>, <<"M","O","R","O","C","C","O">>, <<"S","O","U","T","H"," ","A","F","R","I","C","A">>, <<"T","U","N","I","S","I","A">>}

ALL == SOUTH_AMERICA \cup NORTH_AMERICA \cup EUROPE \cup ASIA
           \cup AFRICA \cup UNITED_STATES

\* the dictionary regions, as its keys and its lookup
RegionKeys == {<<"A","S","I","A">>, <<"A","F","R","I","C","A">>, <<"E","U","R","O","P","E">>, <<"S","O","U","T","H","_","A","M","E","R","I","C","A">>,
               <<"N","O","R","T","H","_","A","M","E","R","I","C","A">>, <<"U","N","I","T","E","D","_","S","T","A","T","E","S">>, <<"A","L","L">>}

regions(key) ==
    CASE key = <<"A","S","I","A">> -> ASIA
      [] key = <<"A","F","R","I","C","A">> -> AFRICA
      [] key = <<"E","U","R","O","P","E">> -> EUROPE
      [] key = <<"S","O","U","T","H","_","A","M","E","R","I","C","A">> -> SOUTH_AMERICA
      [] key = <<"N","O","R","T","H","_","A","M","E","R","I","C","A">> -> NORTH_AMERICA
      [] key = <<"U","N","I","T","E","D","_","S","T","A","T","E","S">> -> UNITED_STATES
      [] key = <<"A","L","L">> -> ALL

\* a faulty variant: the country is looked up as given
in_region_raw(country, countries) == country \in countries

\* country.upper() in regions[region.upper()]
in_region(country, countries) == upper(country) \in countries

RECURSIVE select_rows(_, _, _, _)
\* the loop of select_region over in_list[i..], reactor_list being the rows
\* appended so far; examined counts the rows the loop has looked at
select_rows(in_list, i, countries, reactor_list) ==
    IF i > Len(in_list)
    THEN [raised |-> None, value |-> reactor_list, examined |-> i - 1]
    ELSE LET row == in_list[i]
             Decide(deployed) ==
                 IF deployed.raised # None
                 THEN [raised |-> deployed.raised, value |-> None, examined |-> i]
                 ELSE select_rows(in_list, i + 1, countries,
                                  IF deployed.value
                                  THEN Append(reactor_list, row)
                                  ELSE reactor_list)
         IN IF in_region(row.country, countries)
            THEN Decide(confirm_deployment(row.comm_date, row.capacity))
            ELSE select_rows(in_list, i + 1, countries, reactor_list)

\* a faulty variant: the region name is looked up as given
select_region_casesensitive(in_list, region_name) ==
    IF region_name \notin RegionKeys
    THEN [raised |-> RegionError, value |-> None, examined |-> 0]
    ELSE select_rows(in_list, 1, regions(region_name), <<>>)

select_region(in_list, region_name) ==
    IF upper(region_name) \notin RegionKeys
    THEN [raised |-> RegionError, value |-> None, examined |-> 0]
    ELSE select_rows(in_list, 1, regions(upper(region_name)), <<>>)

(***************************************************************************)
(* The runs of the filter: one call per run.                               *)
(***************************************************************************)
MaxRows == 2

DateStrs == {<<"1","9","8","5","-","0","6","-","0","1">>, <<"1","9","8","5","-","0","2","-","3","0">>, <<>>, <<"1","9","8","5">>, <<"N","/","A">>,
             <<"u","n","k","n","o","w","n">>, <<" ","1","9","8","5">>}

CapacityStrs == {<<"9","0","0">>, <<"4","0","0">>, <<"4","0","0",".","5">>, <<"4","0","1">>, <<"3","0","0">>, <<"-","9","0","0">>,
                 <<" ","9","0","0"," ">>, <<>>, <<"N","/","A">>}

FilterCountries == {<<"J","a","p","a","n">>, <<"F","R","A","N","C","E">>, <<"A","T","L","A","N","T","I","S">>}

FilterCapacities == {<<"9","0","0">>, <<"4","0","0">>, <<"N","/","A">>}

FilterDates == {<<"1","9","8","5","-","0","6","-","0","1">>, <<"N","/","A">>}

FilterRows ==
    {Row(c, <<"O","H","I","-","1">>, <<"P","W","R">>, cap, d, <<>>) :
        c \in FilterCountries, cap \in FilterCapacities, d \in FilterDates}

RECURSIVE SeqsUpTo(_, _)
\* the sequences of at most n members of S
SeqsUpTo(S, n) ==
    IF n = 0 THEN {<<>>}
    ELSE LET P == SeqsUpTo(S, n - 1) IN P \cup {Append(p, x) : p \in P, x \in S}

RegionNames == {<<"A","S","I","A">>, <<"e","u","r","o","p","e">>, <<"A","l","l">>, <<"A","f","r","i","c","a">>, <<"s","o","u","t","h","_","a","m","e","r","i","c","a">>,
                <<"N","o","r","t","h","_","A","m","e","r","i","c","a">>, <<"u","n","i","t","e","d","_","s","t","a","t","e","s">>, <<"A","T","L","A","N","T","I","S">>,
                <<"U","N","I","T","E","D"," ","S","T","A","T","E","S">>, <<>>}

CallConfirmDeployment ==
    /\ pc = "start"
    /\ \E date_str \in DateStrs, capacity \in CapacityStrs :
           \E r \in {confirm_deployment(date_str, capacity)} :
              call' = [fn |-> "confirm_deployment",
                       args |-> <<date_str, capacity>>,
                       raised |-> r.raised, result |-> r.value]
    /\ pc' = "done"
    /\ FilesUnchanged

CallSelectRegion ==
    /\ pc = "start"
    /\ \E in_list \in SeqsUpTo(FilterRows, MaxRows), region_name \in RegionNames :
           \E r \in {select_region(in_list, region_name)} :
              call' = [fn |-> "select_region",
                       args |-> <<in_list, region_name>>,
                       raised |-> r.raised, result |-> r.value,
                       examined |-> r.examined]
    /\ pc' = "done"
    /\ FilesUnchanged

NextFilter == CallConfirmDeployment \/ CallSelectRegion

SpecFilter == InitCall /\ [][NextFilter]_vars

(***************************************************************************)
(* C2, C3, C4, C5                                                          *)
(***************************************************************************)
\* the country set the claims give each region name
RegionCountries(key) ==
    CASE key = <<"A","S","I","A">> -> ASIA
      [] key = <<"A","F","R","I","C","A">> -> AFRICA
      [] key = <<"E","U","R","O","P","E">> -> EUROPE
      [] key = <<"S","O","U","T","H","_","A","M","E","R","I","C","A">> -> SOUTH_AMERICA
      [] key = <<"N","O","R","T","H","_","A","M","E","R","I","C","A">> -> NORTH_AMERICA
      [] key = <<"U","N","I","T","E","D","_","S","T","A","T","E","S">> -> UNITED_STATES
      [] key = <<"A","L","L">> -> UNION {ASIA, AFRICA, EUROPE, SOUTH_AMERICA,
                                 NORTH_AMERICA, UNITED_STATES}

Recognized(region_name) == upper(region_name) \in RegionKeys

Eligible(row) ==
    LET d == confirm_deployment(row.comm_date, row.capacity)
    IN d.raised = None /\ d.value

\* C2: select_region returns exactly the rows, in input order and each as
\* often as it is in the input, whose upper-cased country is in the
\* region's country set and whose eligibility check is true.
C2_ReturnsEligibleRowsOfRegion ==
    Returned("select_region") =>
        LET in_list == call.args[1]
            countries == RegionCountries(upper(call.args[2]))
            Wanted(row) == upper(row.country) \in countries /\ Eligible(row)
        IN call.result = SelectSeq(in_list, Wanted)

\* a run that returns some rows of a mixed-case country and leaves out
\* others
C2_Witness ==
    /\ Returned("select_region")
    /\ Len(call.result) = 1
    /\ Len(call.args[1]) > 1
    /\ call.result[1].country # upper(call.result[1].country)

\* C3: an unrecognized region name fails before any row is examined and
\* returns no list; a recognized name, in any letter case, does not fail
\* that way.
C3_UnknownRegionFailsFast ==
    (pc = "done" /\ call.fn = "select_region") =>
        IF Recognized(call.args[2])
        THEN call.raised # RegionError
        ELSE call.raised = RegionError /\ call.examined = 0 /\ call.result = None

\* an unrecognized region name met with rows, and a recognized lower-case
\* one, are both among the runs
C3_Witness ==
    /\ pc = "done" /\ call.fn = "select_region"
    /\ ~Recognized(call.args[2])
    /\ Len(call.args[1]) > 0
    /\ call.raised = RegionError

C3_WitnessRecognized ==
    /\ Returned("select_region")
    /\ call.args[2] # upper(call.args[2])
    /\ Len(call.result) > 0

\* C4: for a numeric capacity, confirm_deployment returns True iff the
\* date string has more than 4 characters, the capacity is greater than
\* 400 and the date string parses; it raises nothing.
C4_DeployedIff ==
    (pc = "done" /\ call.fn = "confirm_deployment"
        /\ float(call.args[2]).ok) =>
        /\ call.raised = None
        /\ call.result = (/\ Len(call.args[1]) > 4
                          /\ FloatGt(float(call.args[2]), 400)
                          /\ date_parse(call.args[1]).ok)

\* a capacity of exactly 400 with a date that qualifies is turned down
C4_Witness ==
    /\ Returned("confirm_deployment")
    /\ float(call.args[2]).whole = 400 /\ ~float(call.args[2]).frac
    /\ Len(call.args[1]) > 4 /\ date_parse(call.args[1]).ok
    /\ call.result = FALSE

\* C5 as stated: a non-numeric capacity leaves the eligibility check, and
\* select_region, as a conversion failure whatever the date string is.
C5_BadCapacityAlwaysRaises ==
    /\ (pc = "done" /\ call.fn = "confirm_deployment"
            /\ ~float(call.args[2]).ok) => call.raised = FloatError
    /\ (pc = "done" /\ call.fn = "select_region" /\ Recognized(call.args[2])) =>
           LET in_list == call.args[1]
               countries == RegionCountries(upper(call.args[2]))
           IN (\E i \in 1..Len(in_list) :
                  /\ upper(in_list[i].country) \in countries
                  /\ ~float(in_list[i].capacity).ok)
              => call.raised = FloatError

\* C5 as amended: a non-numeric capacity leaves the eligibility check, and
\* select_region, as a conversion failure when the record's date string
\* has more than 4 characters; with a date string of 4 or fewer characters
\* the capacity is not converted and the record is ineligible.
C5_BadCapacityRaisesWithLongDate ==
    /\ (pc = "done" /\ call.fn = "confirm_deployment"
            /\ ~float(call.args[2]).ok) =>
           IF Len(call.args[1]) > 4
           THEN call.raised = FloatError
           ELSE call.raised = None /\ call.result = FALSE
    /\ (pc = "done" /\ call.fn = "select_region" /\ Recognized(call.args[2])) =>
           LET in_list == call.args[1]
               countries == RegionCountries(upper(call.args[2]))
           IN (\E i \in 1..Len(in_list) :
                  /\ upper(in_list[i].country) \in countries
                  /\ ~float(in_list[i].capacity).ok
                  /\ Len(in_list[i].comm_date) > 4)
              <=> call.raised = FloatError

\* select_region fails on the non-numeric capacity of its second row
C5_Witness ==
    /\ Raised("select_region")
    /\ call.raised = FloatError
    /\ call.examined = 2

(***************************************************************************)
(* Derivation engine                                                       *)
(***************************************************************************)
ParserError == "ParserError: unknown string format"

DaysBeforeMonth(y, m) ==
    LET RECURSIVE Sum(_)
        Sum(k) == IF k = 0 THEN 0 ELSE DaysInMonth(y, k) + Sum(k - 1)
    IN Sum(m - 1)

\* datetime.toordinal(): the days from 0001-01-01, which is day 1
toordinal(d) ==
    LET y == d.year - 1
    IN 365 * y + (y \div 4) - (y \div 100) + (y \div 400)
       + DaysBeforeMonth(d.year, d.month) + d.day

\* (a - b).days of two parsed dates
days_between(a, b) == toordinal(a) - toordinal(b)

\* int(num / den) for a den > 0: the quotient cut toward zero
int_div(num, den) ==
    IF num >= 0 THEN num \div den ELSE -((-num) \div den)

\* round(num / den) for num >= 0 and den > 0: to the nearest whole number,
\* a tie to the even one
round_div(num, den) ==
    LET q == num \div den
        r == num % den
    IN IF 2 * r < den THEN q
       ELSE IF 2 * r > den THEN q + 1
       ELSE IF q % 2 = 0 THEN q ELSE q + 1

\* a faulty variant: the quotient is floored
get_lifetime_floor(in_row) ==
    LET comm_date == in_row.comm_date
        shutdown_date == in_row.shutdown_date
        Months(shut, comm) ==
            IF ~shut.ok \/ ~comm.ok THEN Raise(ParserError)
            ELSE Value((days_between(shut, comm) * 12) \div 365)
    IN IF strip(shutdown_date) = <<>> THEN Value(720)
       ELSE Months(date_parse(shutdown_date), date_parse(comm_date))

\* delta / n_days_month is delta / (365.0 / 12) = delta * 12 / 365
get_lifetime(in_row) ==
    LET comm_date == in_row.comm_date
        shutdown_date == in_row.shutdown_date
        Months(shut, comm) ==
            IF ~shut.ok \/ ~comm.ok THEN Raise(ParserError)
            ELSE Value(int_div(days_between(shut, comm) * 12, 365))
    IN IF strip(shutdown_date) = <<>> THEN Value(720)
       ELSE Months(date_parse(shutdown_date), date_parse(comm_date))

\* str.rfind(sub) for a one-character sub: 0-based, or -1
rfind(s, c) ==
    LET hits == {i \in 0..(Len(s) - 1) : s[i + 1] = c}
    IN IF hits = {} THEN -1 ELSE CHOOSE i \in hits : \A j \in hits : i >= j

RECURSIVE rstrip_slash(_)
rstrip_slash(s) ==
    IF s # <<>> /\ s[Len(s)] = "/" THEN rstrip_slash(SubSeq(s, 1, Len(s) - 1)) ELSE s

\* os.path.dirname(p): p up to its last slash, without that slash unless
\* the head is slashes only
dirname(p) ==
    LET head == Upto(p, rfind(p, "/") + 1)
    IN IF rstrip_slash(head) = <<>> THEN head ELSE rstrip_slash(head)

\* row[1].replace(' ', '_')
reactor_name(row) == replace(row.name, <<" ">>, <<"_">>)

\* a faulty variant: the slash after the directory stays
path_file_name_keepslash(reactor) ==
    LET dir == dirname(reactor)
    IN IF dir = <<>> THEN reactor ELSE replace(reactor, dir, <<>>)

\* reactor.replace(os.path.dirname(path_list[index]), '').replace('/', '')
path_file_name(reactor) ==
    LET dir == dirname(reactor)
    IN replace(IF dir = <<>> THEN reactor ELSE replace(reactor, dir, <<>>),
               <<"/">>, <<>>)

\* a faulty variant: the month counts from 0
build_offset_month0(comm_date, start_year) ==
    (comm_date.year - start_year) * 12 + (comm_date.month - 1)
        + round_div(comm_date.day * 12, 365)

\* delta of get_buildtime; start_date[2] / (365.0 / 12) is day * 12 / 365
build_offset(comm_date, start_year) ==
    (comm_date.year - start_year) * 12 + comm_date.month
        + round_div(comm_date.day * 12, 365)

\* dict.update({key: val})
update(dict, key, val) ==
    [k \in DOMAIN dict \cup {key} |-> IF k = key THEN val ELSE dict[k]]

EmptyDict == [k \in {} |-> None]

xml_suffix == <<".","x","m","l">>

RECURSIVE match_paths(_, _, _, _, _)
\* the inner loop of get_buildtime over path_list[j..]
match_paths(row, delta, path_list, j, buildtime_dict) ==
    IF j > Len(path_list) THEN buildtime_dict
    ELSE match_paths(row, delta, path_list, j + 1,
             IF reactor_name(row) \o xml_suffix = path_file_name(path_list[j])
             THEN update(buildtime_dict, reactor_name(row),
                         [country |-> row.country, delta |-> delta])
             ELSE buildtime_dict)

RECURSIVE buildtime_rows(_, _, _, _, _)
\* the outer loop of get_buildtime over in_list[i..]
buildtime_rows(in_list, start_year, path_list, i, buildtime_dict) ==
    IF i > Len(in_list) THEN Value(buildtime_dict)
    ELSE LET Record(comm_date) ==
                 IF ~comm_date.ok THEN Raise(ParserError)
                 ELSE buildtime_rows(in_list, start_year, path_list, i + 1,
                          match_paths(in_list[i],
                                      build_offset(comm_date, start_year),
                                      path_list, 1, buildtime_dict))
         IN Record(date_parse(in_list[i].comm_date))

get_buildtime(in_list, start_year, path_list) ==
    buildtime_rows(in_list, start_year, path_list, 1, EmptyDict)

(***************************************************************************)
(* The runs of the derivations: one call per run.                          *)
(***************************************************************************)
LifeDates == {<<"1","9","8","0","-","0","1","-","0","1">>, <<"2","0","1","0","-","0","1","-","0","1">>, <<"1","9","8","5","-","0","6","-","1","6">>, <<"2","0","0","0","-","0","2","-","2","9">>,
              <<"1","9","7","9","-","1","2","-","3","1">>, <<"1","9","8","1","-","0","1","-","0","1">>, <<"u","n","k","n","o","w","n">>, <<>>}

BlankDates == {<<>>, <<" ">>, <<" ","\t">>}

BuildNames == {<<"O","H","I","-","1">>, <<"S","T"," ","L","U","C","I","E","-","1">>}

BuildDates == {<<"1","9","8","5","-","0","1","-","0","1">>, <<"1","9","8","5","-","0","6","-","1","5">>, <<"1","9","8","5","-","0","6","-","1","6">>,
               <<"1","9","6","9","-","1","2","-","3","1">>, <<"u","n","k","n","o","w","n">>}

BuildRows ==
    {Row(<<"J","A","P","A","N">>, n, <<"P","W","R">>, <<"9","0","0">>, d, <<>>) :
        n \in BuildNames, d \in BuildDates}

StartYears == {1970, 1985}

PathLists == {
    <<>>,
    <<<<"r","e","a","c","t","o","r","s","/","O","H","I","-","1",".","x","m","l">>>>,
    <<<<"r","e","a","c","t","o","r","s","/","S","T","_","L","U","C","I","E","-","1",".","x","m","l">>, <<"r","e","a","c","t","o","r","s","/","O","H","I","-","1",".","x","m","l">>>>,
    <<<<"c","y","c","l","u","s","/","i","n","p","u","t","/","a","s","i","a","/","r","e","a","c","t","o","r","s","/","S","T","_","L","U","C","I","E","-","1",".","x","m","l">>, <<"r","e","a","c","t","o","r","s","/","O","H","I","-","2",".","x","m","l">>>> }

CallGetLifetime ==
    /\ pc = "start"
    /\ \E comm_date \in LifeDates, shutdown_date \in LifeDates \cup BlankDates :
           LET in_row == Row(<<"J","A","P","A","N">>, <<"O","H","I","-","1">>, <<"P","W","R">>, <<"9","0","0">>,
                             comm_date, shutdown_date)
           IN \E r \in {get_lifetime(in_row)} :
                  call' = [fn |-> "get_lifetime", args |-> <<in_row>>,
                           raised |-> r.raised, result |-> r.value]
    /\ pc' = "done"
    /\ FilesUnchanged

CallGetBuildtime ==
    /\ pc = "start"
    /\ \E in_list \in SeqsUpTo(BuildRows, MaxRows), start_year \in StartYears,
          path_list \in PathLists :
           \E r \in {get_buildtime(in_list, start_year, path_list)} :
              call' = [fn |-> "get_buildtime",
                       args |-> <<in_list, start_year, path_list>>,
                       raised |-> r.raised, result |-> r.value]
    /\ pc' = "done"
    /\ FilesUnchanged

NextDerive == CallGetLifetime \/ CallGetBuildtime

SpecDerive == InitCall /\ [][NextDerive]_vars

(***************************************************************************)
(* C8, C9                                                                  *)
(***************************************************************************)
IsBlank(s) == \A i \in 1..Len(s) : s[i] \in Whitespace

Abs(n) == IF n >= 0 THEN n ELSE -n

\* C8: get_lifetime returns 720 when the shutdown date is blank, whatever
\* the commercial date is and whether or not it parses; otherwise, for two
\* dates that parse, the days from the commercial to the shutdown date
\* divided by 365/12 and cut toward zero; 360 for 1980-01-01 to 2010-01-01.
C8_LifetimeMonths ==
    (pc = "done" /\ call.fn = "get_lifetime") =>
        LET row == call.args[1]
            comm == date_parse(row.comm_date)
            shut == date_parse(row.shutdown_date)
            days == days_between(shut, comm)
        IN /\ IsBlank(row.shutdown_date) =>
                  call.raised = None /\ call.result = 720
           /\ (~IsBlank(row.shutdown_date) /\ comm.ok /\ shut.ok) =>
                  /\ call.raised = None
                  /\ Abs(call.result) * 365 <= Abs(days) * 12
                  /\ Abs(days) * 12 < (Abs(call.result) + 1) * 365
                  /\ call.result * days >= 0
           /\ (row.comm_date = <<"1","9","8","0","-","0","1","-","0","1">>
                   /\ row.shutdown_date = <<"2","0","1","0","-","0","1","-","0","1">>) => call.result = 360

\* a shutdown date before the commercial date, not a whole number of
\* months apart
C8_Witness ==
    /\ Returned("get_lifetime")
    /\ ~IsBlank(call.args[1].shutdown_date)
    /\ call.result < 0
    /\ (days_between(date_parse(call.args[1].shutdown_date),
                     date_parse(call.args[1].comm_date)) * 12) % 365 # 0

\* the last row of in_list that get_buildtime records under the name key
LastRowNamed(in_list, key) ==
    in_list[CHOOSE i \in 1..Len(in_list) :
                /\ reactor_name(in_list[i]) = key
                /\ \A j \in (i + 1)..Len(in_list) : reactor_name(in_list[j]) # key]

\* C9: the build offset recorded for a reactor with commercial date
\* (Y, M, D) and start year S is (Y - S) * 12 + M, plus 1 when D >= 16.
C9_BuildOffset ==
    Returned("get_buildtime") =>
        \A key \in DOMAIN call.result :
            LET row == LastRowNamed(call.args[1], key)
                date == date_parse(row.comm_date)
            IN call.result[key].delta =
                   (date.year - call.args[2]) * 12 + date.month
                       + (IF date.day <= 15 THEN 0 ELSE 1)

\* a reactor whose commercial date is 1 January of the start year is
\* recorded with offset 1
C9_Witness ==
    /\ Returned("get_buildtime")
    /\ \E key \in DOMAIN call.result :
           LET date == date_parse(LastRowNamed(call.args[1], key).comm_date)
           IN /\ date.year = call.args[2] /\ date.month = 1 /\ date.day = 1
              /\ call.result[key].delta = 1

(***************************************************************************)
(* Reconciler                                                              *)
(***************************************************************************)
\* get_edge_cases(): the dictionary others as <<key, value>> pairs
get_edge_cases == <<
    <<<<"O","H","I","-">>, <<"O^","i">>>>,
    <<<<"A","S","C","O","-">>, <<"A","s","c","o'">>>>,
    <<<<"R","O","V","N","O","-">>, <<"R","i","v","n","e">>>>,
    <<<<"S","H","I","N","-","K","O","R","I","-">>, <<"K","o","r","i">>>>,
    <<<<"A","N","O","-">>, <<"A","r","k","a","n","s","a","s"," ","O","n","e">>>>,
    <<<<"H","A","N","B","I","T","-">>, <<"Y","e","o","n","g","g","w","a","n","g">>>>,
    <<<<"F","E","R","M","I","-">>, <<"E","n","r","i","c","o"," ","F","e","r","m","i">>>>,
    <<<<"B","A","L","T","I","C","-">>, <<"K","a","l","i","n","i","n","g","r","a","d">>>>,
    <<<<"C","O","O","K","-">>, <<"D","o","n","a","l","d"," ","C","."," ","C","o","o","k">>>>,
    <<<<"H","A","T","C","H","-">>, <<"E","d","w","i","n"," ","I","."," ","H","a","t","c","h">>>>,
    <<<<"H","A","R","R","I","S","-">>, <<"S","h","e","a","r","o","n"," ","H","a","r","r","i","s">>>>,
    <<<<"S","H","I","N","-","W","O","L","S","O","N","G","-">>, <<"W","o","l","s","e","o","n","g">>>>,
    <<<<"S","T","."," ","A","L","B","A","N","-">>, <<"S","a","i","n","t","-","A","l","b","a","n">>>>,
    <<<<"L","A","S","A","L","L","E","-">>, <<"L","a","S","a","l","l","e"," ","C","o","u","n","t","y">>>>,
    <<<<"Z","A","P","O","R","O","Z","H","Y","E","-">>, <<"Z","a","p","o","r","i","z","h","z","h","y","a">>>>,
    <<<<"R","O","B","I","N","S","O","N","-">>, <<"H","."," ","B","."," ","R","o","b","i","n","s","o","n">>>>,
    <<<<"S","U","M","M","E","R","-">>, <<"V","i","r","g","i","l"," ","C","."," ","S","u","m","m","e","r">>>>,
    <<<<"F","A","R","L","E","Y","-">>, <<"J","o","s","e","p","h"," ","M","."," ","F","a","r","l","e","y">>>>,
    <<<<"S","T","."," ","L","A","U","R","E","N","T"," ">>, <<"S","a","i","n","t","-","L","a","u","r","e","n","t">>>>,
    <<<<"H","A","D","D","A","M"," ","N","E","C","K">>, <<"C","o","n","n","e","c","t","i","c","u","t","1"," ","Y","a","n","k","e","e">>>>,
    <<<<"F","I","T","Z","P","A","T","R","I","C","K">>, <<"J","a","m","e","s"," ","A","."," ","F","i","t","z","P","a","t","r","i","c","k">>>>,
    <<<<"H","I","G","A","S","H","I"," ","D","O","R","I","-","1"," ","(","T","O","H","O","K","U",")">>, <<"H","i","g","a","s","h","i","d","o^","r","i">>>> >>

Max(a, b) == IF a >= b THEN a ELSE b

RECURSIVE lcs_row(_, _, _, _, _)
\* one row of the longest-common-subsequence table: prev is the row of the
\* characters before c, row[j] the entries for s2[1..j-1] found so far
lcs_row(c, s2, prev, j, row) ==
    IF j > Len(s2) THEN row
    ELSE LET entry == IF c = s2[j] THEN prev[j] + 1
                      ELSE Max(prev[j + 1], row[j])
         IN IF entry >= 0
            THEN lcs_row(c, s2, prev, j + 1, Append(row, entry))
            ELSE row

RECURSIVE lcs_rows(_, _, _, _)
lcs_rows(s1, s2, i, prev) ==
    IF i > Len(s1) THEN prev[Len(s2) + 1]
    ELSE LET row == lcs_row(s1[i], s2, prev, 1, <<0>>)
         IN IF Len(row) > 0 THEN lcs_rows(s1, s2, i + 1, row) ELSE 0

\* the length of a longest common subsequence of s1 and s2
lcs(s1, s2) == lcs_rows(s1, s2, 1, [j \in 1..(Len(s2) + 1) |-> 0])

\* fuzz.ratio(s1, s2): 100 for equal strings, 0 when one is empty, else
\* 100 * (len(s1) + len(s2) - d) / (len(s1) + len(s2)) rounded, d being the
\* edit distance that counts a substitution 2: d = len(s1) + len(s2) -
\* 2 * lcs(s1, s2)
ratio(s1, s2) ==
    IF s1 = s2 THEN 100
    ELSE IF s1 = <<>> \/ s2 = <<>> THEN 0
    ELSE round_div(200 * lcs(s1, s2), Len(s1) + Len(s2))

\* the else branch of the inner loop: some edge case names both
edge_case_match(webscrape_name, pris_name) ==
    \E k \in DOMAIN get_edge_cases :
        LET edge_case_key == lower(get_edge_cases[k][1])
            edge_case_value == lower(get_edge_cases[k][2])
        IN /\ ratio(pris_name, edge_case_key) > 80
           /\ ratio(webscrape_name, edge_case_value) > 75

\* the body of the inner loop writes web's coordinates to prs
is_match(web, prs) ==
    LET webscrape_name == sanitize_webscrape_name(web.name)
        pris_name == sanitize_pris_name(prs.name)
    IN IF ratio(webscrape_name, pris_name) > 78 THEN TRUE
       ELSE edge_case_match(webscrape_name, pris_name)

\* import_pris: Latitude and Longitude are added as columns 13 and 14, empty
import_pris(rows) ==
    [i \in DOMAIN rows |-> [rows[i] EXCEPT !.lat = <<>>, !.lon = <<>>]]

RECURSIVE merge_from(_, _, _)
\* the loops of merge_coordinates over coords[w..], on a frame whose rows
\* iterrows() hands out as views
merge_from(pris, coords, w) ==
    IF w > Len(coords) THEN pris
    ELSE merge_from([i \in DOMAIN pris |->
                        IF is_match(coords[w], pris[i])
                        THEN [pris[i] EXCEPT !.lat = coords[w].lat,
                                             !.lon = coords[w].long]
                        ELSE pris[i]],
                    coords, w + 1)

\* The rows written to reactors_pris_2016.csv. prs is the Series that
\* iterrows() builds for a row: pandas leaves open whether it is a view of
\* the frame or a copy ("depending on the data types, the iterator returns
\* a copy and not a view, and writing to it will have no effect"); a frame
\* with a numeric column next to the text columns gives copies.
merge_coordinates(pris_rows, coords, is_view) ==
    LET pris == import_pris(pris_rows)
    IN IF is_view THEN merge_from(pris, coords, 1) ELSE pris

(***************************************************************************)
(* The runs of merge_coordinates                                           *)
(***************************************************************************)
MaxGeo == 2

Reactor(name) == Row(<<"J","A","P","A","N">>, name, <<"P","W","R">>, <<"9","0","0">>, <<"1","9","8","5","-","0","6","-","0","1">>, <<>>)

OHI_1 == Reactor(<<"O","H","I","-","1">>)
TAKAHAMA_1 == Reactor(<<"T","A","K","A","H","A","M","A","-","1">>)
TAKAHAMA_2 == Reactor(<<"T","A","K","A","H","A","M","A","-","2">>)
MIHAMA_1 == Reactor(<<"M","I","H","A","M","A","-","1">>)
HADDAM == Reactor(<<"H","A","D","D","A","M"," ","N","E","C","K">>)

PrisTables == {
    <<>>,
    <<OHI_1>>,
    <<MIHAMA_1, HADDAM>>,
    <<OHI_1, TAKAHAMA_1, MIHAMA_1>>,
    <<TAKAHAMA_1, TAKAHAMA_2, OHI_1>>,
    <<HADDAM, MIHAMA_1, OHI_1>> }

GeoPoint(name, long, lat) == [name |-> name, long |-> long, lat |-> lat]

GeoPoints == {
    GeoPoint(<<"T","a","k","a","h","a","m","a"," ","N","u","c","l","e","a","r"," ","P","o","w","e","r"," ","P","l","a","n","t">>, <<"1","3","5",".","5">>, <<"3","5",".","5">>),
    GeoPoint(<<"T","a","k","a","h","a","m","a">>, <<"1","3","5",".","6">>, <<"3","5",".","6">>),
    GeoPoint(<<"O^","i"," ","N","u","c","l","e","a","r"," ","P","o","w","e","r"," ","P","l","a","n","t">>, <<"1","3","5",".","7">>, <<"3","5",".","7">>),
    GeoPoint(<<"C","o","n","n","e","c","t","i","c","u","t"," ","Y","a","n","k","e","e">>, <<"-","7","2",".","5">>, <<"4","1",".","5">>),
    GeoPoint(<<"T","s","u","r","u","g","a">>, <<"1","3","6",".","1">>, <<"3","5",".","8">>) }

InitMerge ==
    /\ pris_csv \in PrisTables
    /\ webscrape \in SeqsUpTo(GeoPoints, MaxGeo)
    /\ row_is_view \in BOOLEAN
    /\ merged_csv = None
    /\ call = [fn |-> None]
    /\ in_csv = <<>> /\ region = <<>> /\ reactors_dir = None
    /\ buildtime = None /\ deployinst = None /\ inclusions = None
    /\ fs = None
    /\ pc = "start"

MergeCoordinates ==
    /\ pc = "start"
    /\ merged_csv' = merge_coordinates(pris_csv, webscrape, row_is_view)
    /\ pc' = "done"
    /\ UNCHANGED <<call, pris_csv, webscrape, row_is_view, in_csv, region,
                   reactors_dir, buildtime, deployinst, inclusions, fs>>

NextMerge == MergeCoordinates

SpecMerge == InitMerge /\ [][NextMerge]_vars

(***************************************************************************)
(* C1                                                                      *)
(***************************************************************************)
\* a geo point matches a reactor, in the words of the claim
Matches(web, prs) ==
    LET geo_name == sanitize_webscrape_name(web.name)
        reactor_name_ == sanitize_pris_name(prs.name)
    IN \/ ratio(geo_name, reactor_name_) > 78
       \/ \E k \in DOMAIN get_edge_cases :
              /\ ratio(reactor_name_, lower(get_edge_cases[k][1])) > 80
              /\ ratio(geo_name, lower(get_edge_cases[k][2])) > 75

MatchingGeo(prs) == {w \in DOMAIN webscrape : Matches(webscrape[w], prs)}

LastOf(S) == CHOOSE w \in S : \A v \in S : v <= w

\* C1: every row of the written file has the coordinates of the last geo
\* point that matches it, and empty coordinates if none matches it.
C1_LastMatchingGeoPointWritten ==
    pc = "done" =>
        /\ Len(merged_csv) = Len(pris_csv)
        /\ \A i \in DOMAIN merged_csv :
               LET M == MatchingGeo(pris_csv[i])
               IN IF M = {}
                  THEN merged_csv[i].lat = <<>> /\ merged_csv[i].lon = <<>>
                  ELSE /\ merged_csv[i].lat = webscrape[LastOf(M)].lat
                       /\ merged_csv[i].lon = webscrape[LastOf(M)].long

\* the same, of the runs in which iterrows() hands out views
C1_HoldsOnViews == row_is_view => C1_LastMatchingGeoPointWritten

\* three reactors and two geo points of which one matches one reactor
C1_OneMatchOfThree ==
    /\ pc = "done" /\ Len(pris_csv) = 3 /\ Len(webscrape) = 2
    /\ Cardinality({<<i, w>> \in (DOMAIN pris_csv) \X (DOMAIN webscrape) :
                        Matches(webscrape[w], pris_csv[i])}) = 1

(***************************************************************************)
(* Document emitter                                                        *)
(***************************************************************************)
FileNotFoundError == "FileNotFoundError: no such file or directory"

\* a directory: whether it exists, and its files by name
Dir(files) == [exists |-> TRUE, files |-> files]

NoDir == [exists |-> FALSE, files |-> EmptyDict]

\* assem_no, assem_per_batch and assem_size (as the quotient mass / assem_no)
\* of a reactor type
assembly(reactor_type) ==
    LET Of(assem_no, batches, mass) ==
            [n_assem_core |-> assem_no,
             n_assem_batch |-> int_div(assem_no, batches),
             assem_size |-> <<mass, assem_no>>]
    IN IF reactor_type \in {<<"B","W","R">>, <<"E","S","B","W","R">>} THEN Of(732, 3, 138000)
       ELSE IF reactor_type \in {<<"G","C","R">>, <<"H","W","G","C","R">>} THEN Of(324, 3, 114000)
       ELSE IF reactor_type = <<"H","T","G","R">> THEN Of(3944, 3, 39000)
       ELSE IF reactor_type = <<"P","H","W","R">> THEN Of(390, 45, 80000)
       ELSE IF reactor_type = <<"V","V","E","R">> THEN Of(312, 3, 41500)
       ELSE IF reactor_type = <<"V","V","E","R","-","1","2","0","0">> THEN Of(163, 3, 80000)
       ELSE Of(241, 3, 103000)

\* reactor_template.render(...): the document of a row whose lifetime is
\* known; written tells the documents of this run from those found
render_reactor(row, lifetime) ==
    LET a == assembly(row.type)
    IN [written |-> TRUE,
        name |-> reactor_name(row),
        lifetime |-> lifetime,
        assem_size |-> a.assem_size,
        n_assem_core |-> a.n_assem_core,
        n_assem_batch |-> a.n_assem_batch,
        power_cap |-> row.capacity,
        lon |-> IF row.lon # <<>> THEN row.lon ELSE <<"0">>,
        lat |-> IF row.lat # <<>> THEN row.lat ELSE <<"0">>]

\* out_path + name.replace(' ', '_') + '.xml', within out_path
reactor_file(row) == replace(reactor_name(row), <<" ">>, <<"_">>) \o xml_suffix

RECURSIVE write_rows(_, _, _)
\* the loop of write_reactors over in_list[i..]; files are those of
\* out_path so far
write_rows(in_list, i, files) ==
    IF i > Len(in_list) THEN [raised |-> None, files |-> files]
    ELSE LET row == in_list[i]
             Write(lifetime) ==
                 IF lifetime.raised # None
                 THEN [raised |-> lifetime.raised, files |-> files]
                 ELSE write_rows(in_list, i + 1,
                          update(files, reactor_file(row),
                                 render_reactor(row, lifetime.value)))
             Filter(capacity) ==
                 IF ~capacity.ok THEN [raised |-> FloatError, files |-> files]
                 ELSE IF FloatGe(capacity, 400) THEN Write(get_lifetime(row))
                 ELSE write_rows(in_list, i + 1, files)
         IN Filter(float(row.capacity))

\* write_reactors on the directory out_path: mkdir(parents, exist_ok), then
\* the loop
write_reactors(in_list, out_dir) == write_rows(in_list, 1, out_dir.files)

\* obtain_reactors(in_csv, region, reactor_template) on the directory
\* cyclus/input/<region>/reactors: the exception if one leaves it, and the
\* directory afterwards
obtain_reactors(in_data, region_name, out_dir) ==
    LET Written(w) == [raised |-> w.raised, dir |-> Dir(w.files)]
        Write(reactor_list) ==
            IF reactor_list.raised # None
            THEN [raised |-> reactor_list.raised, dir |-> out_dir]
            ELSE Written(write_reactors(reactor_list.value, out_dir))
    IN Write(select_region(in_data, region_name))

\* 'cyclus/input/' + region + '/reactors', with the slash deploy_reactors
\* adds
reactors_path(region_name) ==
    <<"c","y","c","l","u","s","/","i","n","p","u","t","/">> \o region_name \o <<"/","r","e","a","c","t","o","r","s">> \o <<"/">>

\* the orders in which os.listdir may give the names S
Orderings(S) ==
    {p \in [1..Cardinality(S) -> S] : \A i, j \in DOMAIN p : i # j => p[i] # p[j]}

\* the dictionary of the reactors of a nation with their build offsets
temp_dict(in_dict, nation) ==
    LET keys == {reactor \in DOMAIN in_dict :
                    upper(in_dict[reactor].country) = upper(nation)}
    IN [reactor \in keys |-> in_dict[reactor].delta]

\* nation.replace(' ', '_'), the directory of a nation
nation_dir(nation) == replace(nation, <<" ">>, <<"_">>)

country_list(in_dict) == {in_dict[reactor].country : reactor \in DOMAIN in_dict}

\* write_deployment: the deployinst.xml files, by directory, that the loop
\* over the set country_list can leave. The set is gone through in no fixed
\* order, so of the nations that share a directory any may be written last.
write_deployment(in_dict) ==
    LET dirs == {nation_dir(nation) : nation \in country_list(in_dict)}
        docs(d) == {temp_dict(in_dict, nation) :
                        nation \in {n \in country_list(in_dict) : nation_dir(n) = d}}
    IN {f \in [dirs -> UNION {docs(d) : d \in dirs}] : \A d \in dirs : f[d] \in docs(d)}

\* deploy_reactors up to write_deployment: the exception, or the dictionary
\* buildtime, for the listing lists of reactors_path
deploy_buildtime(in_data, region_name, start_year, dir, file_order) ==
    IF ~dir.exists THEN Raise(FileNotFoundError)
    ELSE LET lists == [i \in DOMAIN file_order |->
                          reactors_path(region_name) \o file_order[i]]
             Build(reactor_list) ==
                 IF reactor_list.raised # None THEN Raise(reactor_list.raised)
                 ELSE get_buildtime(reactor_list.value, start_year, lists)
         IN Build(select_region(in_data, region_name))

(***************************************************************************)
(* The runs of obtain_reactors and deploy_reactors                         *)
(***************************************************************************)
DeployRows == {
    Row(<<"J","A","P","A","N">>, <<"O","H","I","-","1">>, <<"P","W","R">>, <<"9","0","0">>, <<"1","9","8","5","-","0","6","-","1","6">>, <<>>),
    Row(<<"J","a","p","a","n">>, <<"S","T"," ","L","U","C","I","E","-","1">>, <<"B","W","R">>, <<"9","0","0">>, <<"1","9","8","5","-","0","1","-","0","1">>, <<"2","0","1","0","-","0","1","-","0","1">>),
    Row(<<"J","A","P","A","N">>, <<"S","T","_","L","U","C","I","E","-","1">>, <<"P","W","R">>, <<"1","0","0","0">>, <<"1","9","9","0","-","0","3","-","3","1">>, <<" ">>),
    Row(<<"F","R","A","N","C","E">>, <<"B","U","G","E","Y","-","2">>, <<"G","C","R">>, <<"5","4","0">>, <<"1","9","7","2","-","0","7","-","0","1">>, <<"1","9","9","4","-","0","5","-","2","7">>),
    Row(<<"J","A","P","A","N">>, <<"M","I","H","A","M","A","-","1">>, <<"P","W","R">>, <<"3","2","0">>, <<"1","9","7","0","-","1","1","-","2","8">>, <<>>),
    Row(<<"S","O","U","T","H"," ","K","O","R","E","A">>, <<"K","O","R","I","-","1">>, <<"P","W","R">>, <<"5","7","6">>, <<"1","9","7","8","-","0","4","-","2","9">>, <<"u","n","k","n","o","w","n">>),
    Row(<<"C","H","I","N","A">>, <<"Q","I","N","S","H","A","N"," ","2","-","1">>, <<"P","W","R">>, <<"N","/","A">>, <<"2","0","0","2","-","0","4","-","1","5">>, <<>>) }

DeployRegions == {<<"a","s","i","a">>, <<"A","L","L">>, <<"m","a","r","s">>}

StaleDoc == [render_reactor(Reactor(<<>>), 0) EXCEPT !.written = FALSE]

ReactorDirs == {
    NoDir,
    Dir(EmptyDict),
    Dir([f \in {<<"O","H","I","-","1",".","x","m","l">>, <<"F","E","R","M","I","-","2",".","x","m","l">>} |-> StaleDoc]) }

InitDeploy ==
    /\ in_csv \in SeqsUpTo(DeployRows, MaxRows)
    /\ region \in DeployRegions
    /\ reactors_dir \in ReactorDirs
    /\ buildtime = None /\ deployinst = None /\ inclusions = None
    /\ call = [fn |-> None]
    /\ pris_csv = <<>> /\ webscrape = <<>> /\ row_is_view = FALSE
    /\ merged_csv = None
    /\ fs = None
    /\ pc = "start"

ObtainReactors ==
    /\ pc = "start"
    /\ \E r \in {obtain_reactors(in_csv, region, reactors_dir)} :
          /\ reactors_dir' = r.dir
          /\ call' = [fn |-> "obtain_reactors", raised |-> r.raised]
          /\ pc' = IF r.raised = None THEN "obtained" ELSE "failed"
    /\ UNCHANGED <<pris_csv, webscrape, row_is_view, merged_csv, in_csv, region,
                   buildtime, deployinst, inclusions, fs>>

DeployReactors ==
    /\ pc \in {"start", "obtained"}
    /\ \E start_year \in StartYears,
          file_order \in Orderings(DOMAIN reactors_dir.files) :
           \E r \in {deploy_buildtime(in_csv, region, start_year,
                                      reactors_dir, file_order)} :
              /\ call' = [fn |-> "deploy_reactors", start_year |-> start_year,
                          raised |-> r.raised]
              /\ IF r.raised = None
                 THEN /\ buildtime' = r.value
                      /\ deployinst' \in write_deployment(r.value)
                      /\ inclusions' = r.value
                      /\ pc' = IF pc = "obtained" THEN "deployed" ELSE "deployed alone"
                 ELSE /\ UNCHANGED <<buildtime, deployinst, inclusions>>
                      /\ pc' = "failed"
    /\ UNCHANGED <<pris_csv, webscrape, row_is_view, merged_csv, in_csv, region,
                   reactors_dir, fs>>

NextDeploy == ObtainReactors \/ DeployReactors

SpecDeploy == InitDeploy /\ [][NextDeploy]_vars

(***************************************************************************)
(* C10                                                                     *)
(***************************************************************************)
\* the eligible reactors: what select_region returns for the csv file
EligibleReactors == select_region(in_csv, region).value

WrittenDocuments == {f \in DOMAIN reactors_dir.files : reactors_dir.files[f].written}

Range(s) == {s[i] : i \in DOMAIN s}

\* the manifest references only reactors whose document is in reactors_path
ManifestDocumentsExist ==
    \A reactor \in DOMAIN inclusions :
        (reactor \o xml_suffix) \in DOMAIN reactors_dir.files

\* C10 as stated: after obtain_reactors and then deploy_reactors, the
\* documents written and the entries of buildtime are each as many as the
\* eligible reactors, and the manifest references only reactors whose
\* document exists.
C10_OneDocumentAndEntryPerReactor ==
    pc = "deployed" =>
        /\ Cardinality(WrittenDocuments) = Len(EligibleReactors)
        /\ Cardinality(DOMAIN buildtime) = Len(EligibleReactors)
        /\ ManifestDocumentsExist

\* C10 as amended: there is one document and one entry per name (spaces as
\* underscores) of an eligible reactor, so as many of each as there are such
\* names, which is as many as the eligible reactors when no two of them
\* share a name; the manifest references only reactors whose document
\* exists.
C10_OneDocumentAndEntryPerName ==
    pc = "deployed" =>
        LET names == {reactor_name(row) : row \in Range(EligibleReactors)}
        IN /\ WrittenDocuments = {n \o xml_suffix : n \in names}
           /\ DOMAIN buildtime = names
           /\ Cardinality(names) = Len(EligibleReactors) =>
                  /\ Cardinality(WrittenDocuments) = Len(EligibleReactors)
                  /\ Cardinality(DOMAIN buildtime) = Len(EligibleReactors)
           /\ \A row \in Range(EligibleReactors) :
                  buildtime[reactor_name(row)].country \in
                      {r.country : r \in {e \in Range(EligibleReactors) :
                                             reactor_name(e) = reactor_name(row)}}
           /\ ManifestDocumentsExist

\* two eligible reactors of different names, deployed next to documents
\* that were there before
C10_Witness ==
    /\ pc = "deployed"
    /\ Len(EligibleReactors) = 2
    /\ Cardinality(DOMAIN buildtime) = 2
    /\ \E f \in DOMAIN reactors_dir.files : ~reactors_dir.files[f].written

(***************************************************************************)
(* The file system under the document emitters                             *)
(***************************************************************************)
RECURSIVE path_parts(_)
\* pathlib.Path(path).parts of a relative path: what stands between the
\* slashes, but for '.'
path_parts(path) ==
    LET Cut(k) ==
            IF k = -1 THEN IF path = <<".">> THEN <<>> ELSE <<path>>
            ELSE IF k = 0 \/ Upto(path, k) = <<".">>
                 THEN path_parts(From(path, k + 1))
                 ELSE <<Upto(path, k)>> \o path_parts(From(path, k + 1))
    IN IF path = <<>> THEN <<>> ELSE Cut(find(path, <<"/">>))

\* a directory and the directories above it, the working directory apart
Prefixes(parts) == {SubSeq(parts, 1, n) : n \in 1..Len(parts)}

Parent(parts) == SubSeq(parts, 1, Len(parts) - 1)

FileExistsError == "FileExistsError"

NotADirectoryError == "NotADirectoryError"

IsADirectoryError == "IsADirectoryError"

IndexError == "IndexError: string index out of range"

\* a file system below the working directory: its directories, and the
\* content of its files, both by the parts of their paths
FileSystem(dirs, files) == [dirs |-> dirs, files |-> files]

\* an operation on the file system: the exception if one leaves it, and
\* the file system afterwards
Outcome(raised, f) == [raised |-> raised, fs |-> f]

\* pathlib.Path(path).mkdir(parents=True, exist_ok=True)
mkdir(f, path) ==
    LET Make(parts) ==
            IF parts \in DOMAIN f.files THEN Outcome(FileExistsError, f)
            ELSE IF Prefixes(parts) \cap DOMAIN f.files # {}
                 THEN Outcome(NotADirectoryError, f)
                 ELSE Outcome(None, FileSystem(f.dirs \cup Prefixes(parts), f.files))
    IN Make(path_parts(path))

\* with open(path, 'w') as output: output.write(content)
open_w(f, path, content) ==
    LET Open(parts) ==
            IF parts \in f.dirs \/ parts = <<>> \/ path[Len(path)] = "/"
            THEN Outcome(IsADirectoryError, f)
            ELSE IF Prefixes(Parent(parts)) \cap DOMAIN f.files # {}
                 THEN Outcome(NotADirectoryError, f)
                 ELSE IF ~(Prefixes(Parent(parts)) \subseteq f.dirs)
                      THEN Outcome(FileNotFoundError, f)
                      ELSE Outcome(None, FileSystem(f.dirs, update(f.files, parts, content)))
    IN Open(path_parts(path))

\* if out_path[-1] != '/': out_path += '/'
with_slash(out_path) ==
    IF out_path[Len(out_path)] # "/" THEN out_path \o <<"/">> ELSE out_path

RECURSIVE write_reactor_files(_, _, _, _)
\* the loop of write_reactors over in_list[i..], writing below out_path
write_reactor_files(f, in_list, i, out_path) ==
    IF i > Len(in_list) THEN Outcome(None, f)
    ELSE LET row == in_list[i]
             Next(o) ==
                 IF o.raised # None THEN o
                 ELSE write_reactor_files(o.fs, in_list, i + 1, out_path)
             Write(lifetime) ==
                 IF lifetime.raised # None THEN Outcome(lifetime.raised, f)
                 ELSE Next(open_w(f, out_path \o reactor_file(row),
                                  render_reactor(row, lifetime.value)))
             Filter(capacity) ==
                 IF ~capacity.ok THEN Outcome(FloatError, f)
                 ELSE IF FloatGe(capacity, 400) THEN Write(get_lifetime(row))
                 ELSE write_reactor_files(f, in_list, i + 1, out_path)
         IN Filter(float(row.capacity))

\* write_reactors(in_list, out_path, reactor_template) on the file system f
write_reactors_at(f, in_list, out_path) ==
    LET Loop(made) ==
            IF made.raised # None THEN made
            ELSE write_reactor_files(made.fs, in_list, 1, with_slash(out_path))
    IN IF out_path = <<>> THEN Outcome(IndexError, f)
       ELSE Loop(mkdir(f, with_slash(out_path)))

deployinst_xml == <<"d","e","p","l","o","y","i","n","s","t",".","x","m","l">>

inclusions_xml == <<"i","n","c","l","u","s","i","o","n","s",".","x","m","l">>

RECURSIVE write_nations(_, _, _, _, _)
\* the loop of write_deployment over the nations order[i..]
write_nations(f, in_dict, order, i, out_path) ==
    IF i > Len(order) THEN Outcome(None, f)
    ELSE LET dir == out_path \o nation_dir(order[i]) \o <<"/">>
             Next(o) ==
                 IF o.raised # None THEN o
                 ELSE write_nations(o.fs, in_dict, order, i + 1, out_path)
             Write(made) ==
                 IF made.raised # None THEN made
                 ELSE Next(open_w(made.fs, dir \o deployinst_xml,
                                  [reactors |-> temp_dict(in_dict, order[i])]))
         IN Write(mkdir(f, dir))

\* write_deployment(in_dict, out_path, ...) on the file system f, when the
\* set country_list is gone through in the order given
write_deployment_in(f, in_dict, out_path, order) ==
    LET Manifest(o) ==
            IF o.raised # None THEN o
            ELSE open_w(o.fs, with_slash(out_path) \o inclusions_xml,
                        [reactors |-> in_dict])
        Loop(made) ==
            IF made.raised # None THEN made
            ELSE Manifest(write_nations(made.fs, in_dict, order, 1,
                                        with_slash(out_path)))
    IN IF out_path = <<>> THEN Outcome(IndexError, f)
       ELSE Loop(mkdir(f, with_slash(out_path)))

\* write_deployment on the file system f: the outcomes it can have, a set
\* being gone through in no fixed order
write_deployment_at(f, in_dict, out_path) ==
    {write_deployment_in(f, in_dict, out_path, order) :
        order \in Orderings(country_list(in_dict))}

\* render_cyclus(cyclus_template, region, in_dict, out_path) on the file
\* system f
render_cyclus(f, region_name, in_dict, out_path) ==
    IF out_path = <<>> THEN Outcome(IndexError, f)
    ELSE open_w(f, with_slash(out_path) \o region_name \o xml_suffix,
                [countries |-> {nation_dir(nation) : nation \in country_list(in_dict)},
                 base_dir |-> path_parts(with_slash(out_path))])

(***************************************************************************)
(* The calls of the document emitters                                      *)
(***************************************************************************)
EmitPaths == {<<"o","u","t">>, <<"o","u","t","/">>, <<"c","y","c","l","u","s","/","i","n","p","u","t">>, <<".","/">>}

StaleManifest == [reactors |-> EmptyDict]

\* nothing there; out there, with a manifest; cyclus there, a directory;
\* cyclus there, a file
EmitFileSystems == {
    FileSystem({}, EmptyDict),
    FileSystem({<<<<"o","u","t">>>>}, [p \in {<<<<"o","u","t">>, inclusions_xml>>} |-> StaleManifest]),
    FileSystem({<<<<"c","y","c","l","u","s">>>>, <<<<"c","y","c","l","u","s">>, <<"i","n","p","u","t">>>>}, EmptyDict),
    FileSystem({}, [p \in {<<<<"c","y","c","l","u","s">>>>} |-> StaleManifest]) }

EmitNames == {<<"O","H","I","-","1">>, <<"K","O","R","I","-","1">>, <<"K","O","R","I","-","2">>}

EmitCountries == {<<"J","A","P","A","N">>, <<"J","a","p","a","n">>, <<"S","O","U","T","H"," ","K","O","R","E","A">>, <<"S","O","U","T","H","_","K","O","R","E","A">>}

EmitDeltas == {12, 186}

\* the dictionaries get_buildtime can return for up to MaxRows reactors
EmitDicts ==
    UNION {[names -> [country : EmitCountries, delta : EmitDeltas]] :
              names \in {S \in SUBSET EmitNames : Cardinality(S) <= MaxRows}}

EmitRegions == {<<"a","s","i","a">>, <<"A","L","L">>}

InitEmit ==
    /\ fs \in EmitFileSystems
    /\ call = [fn |-> None]
    /\ pris_csv = <<>> /\ webscrape = <<>> /\ row_is_view = FALSE
    /\ merged_csv = None
    /\ in_csv = <<>> /\ region = <<>> /\ reactors_dir = None
    /\ buildtime = None /\ deployinst = None /\ inclusions = None
    /\ pc = "start"

\* the arguments of a call: any for a first call, the same once more after
\* it returned
Calling(fn, inputs) ==
    IF pc = "start" THEN inputs
    ELSE IF pc = "called" /\ call.fn = fn /\ call.raised = None THEN {call.args}
    ELSE {}

\* the call made on the file system before, and whether it was a second one
Called(fn, args, raised) ==
    /\ call' = [fn |-> fn, args |-> args, raised |-> raised, before |-> fs,
                again |-> (pc = "called")]
    /\ pc' = IF pc = "start" THEN "called" ELSE "called again"

EmitUnchanged ==
    UNCHANGED <<pris_csv, webscrape, row_is_view, merged_csv, in_csv, region,
                reactors_dir, buildtime, deployinst, inclusions>>

\* write_reactors(in_list, out_path, reactor_template)
WriteReactors ==
    /\ \E args \in Calling("write_reactors",
                            SeqsUpTo(DeployRows, MaxRows) \X EmitPaths) :
          \E o \in {write_reactors_at(fs, args[1], args[2])} :
             /\ fs' = o.fs
             /\ Called("write_reactors", args, o.raised)
    /\ EmitUnchanged

\* write_deployment(in_dict, out_path, deployinst_template,
\* inclusions_template)
WriteDeployment ==
    /\ \E args \in Calling("write_deployment", EmitDicts \X EmitPaths) :
          \E o \in write_deployment_at(fs, args[1], args[2]) :
             /\ fs' = o.fs
             /\ Called("write_deployment", args, o.raised)
    /\ EmitUnchanged

\* render_cyclus(cyclus_template, region, in_dict, out_path)
RenderCyclus ==
    /\ \E args \in Calling("render_cyclus",
                            EmitRegions \X EmitDicts \X EmitPaths) :
          \E o \in {render_cyclus(fs, args[1], args[2], args[3])} :
             /\ fs' = o.fs
             /\ Called("render_cyclus", args, o.raised)
    /\ EmitUnchanged

NextEmit == WriteReactors \/ WriteDeployment \/ RenderCyclus

SpecEmit == InitEmit /\ [][NextEmit]_vars

(***************************************************************************)
(* C11                                                                     *)
(***************************************************************************)
\* the deployment-schedule documents below out_path, by their paths
DeploymentDocuments(out_path) ==
    {p \in DOMAIN fs.files :
        /\ Len(p) = Len(path_parts(out_path)) + 2
        /\ SubSeq(p, 1, Len(p) - 2) = path_parts(out_path)
        /\ p[Len(p)] = deployinst_xml}

\* the documents in which a reactor appears
DocumentsOf(reactor, out_path) ==
    {p \in DeploymentDocuments(out_path) : reactor \in DOMAIN fs.files[p].reactors}

\* the document of a country below out_path
DocumentOfCountry(country, out_path) ==
    path_parts(out_path) \o <<nation_dir(country), deployinst_xml>>

\* C11 as stated: after write_deployment(in_dict, out_path) there is one
\* deployment-schedule document per country of in_dict, and every reactor
\* of in_dict appears, with its own build offset, in the document of its
\* own country and in no other document.
C11_OneDocumentPerCountryEachReactorInItsOwn ==
    (call.fn = "write_deployment" /\ call.raised = None) =>
        LET in_dict == call.args[1]
            out_path == call.args[2]
        IN /\ Cardinality(DeploymentDocuments(out_path)) =
                  Cardinality(country_list(in_dict))
           /\ \A reactor \in DOMAIN in_dict :
                  /\ DocumentsOf(reactor, out_path) =
                         {DocumentOfCountry(in_dict[reactor].country, out_path)}
                  /\ fs.files[DocumentOfCountry(in_dict[reactor].country,
                                                out_path)].reactors[reactor] =
                         in_dict[reactor].delta

\* no two countries of in_dict differ only in letter case, or only in
\* space versus underscore
CountriesApart(in_dict) ==
    \A m, n \in country_list(in_dict) :
        m # n => upper(m) # upper(n) /\ nation_dir(m) # nation_dir(n)

\* what does hold: C11 for the dictionaries whose countries are apart
C11_HoldsForCountriesApart ==
    (call.fn = "write_deployment" /\ CountriesApart(call.args[1])) =>
        C11_OneDocumentPerCountryEachReactorInItsOwn

\* two reactors of two countries that are apart, each in its own document
C11_TwoCountriesApart ==
    /\ call.fn = "write_deployment" /\ call.raised = None
    /\ Cardinality(country_list(call.args[1])) = 2
    /\ CountriesApart(call.args[1])
    /\ Cardinality(DeploymentDocuments(call.args[2])) = 2

(***************************************************************************)
(* C12                                                                     *)
(***************************************************************************)
\* the output path of the call made
OutPath == call.args[Len(call.args)]

\* the failures of a call that come from the file system
FileSystemErrors ==
    {FileNotFoundError, FileExistsError, NotADirectoryError, IsADirectoryError}

\* the path is not there in f, and no file stands where its directories
\* would
PathAbsent(f, path) ==
    /\ path_parts(path) # <<>>
    /\ path_parts(path) \notin f.dirs
    /\ Prefixes(path_parts(path)) \cap DOMAIN f.files = {}

\* the path is a directory of f
PathExists(f, path) == Prefixes(path_parts(path)) \subseteq f.dirs

\* the documents the call made was to write are below its output path
DocumentsWritten ==
    LET out == path_parts(OutPath)
    IN CASE call.fn = "write_reactors" ->
                \A i \in DOMAIN call.args[1] :
                    FloatGe(float(call.args[1][i].capacity), 400) =>
                        (out \o <<reactor_file(call.args[1][i])>>) \in DOMAIN fs.files
         [] call.fn = "write_deployment" ->
                /\ (out \o <<inclusions_xml>>) \in DOMAIN fs.files
                /\ fs.files[out \o <<inclusions_xml>>] = [reactors |-> call.args[1]]
                /\ \A nation \in country_list(call.args[1]) :
                       DocumentOfCountry(nation, OutPath) \in DOMAIN fs.files
         [] call.fn = "render_cyclus" ->
                (out \o <<call.args[1] \o xml_suffix>>) \in DOMAIN fs.files

\* the call made found its output path missing or a directory, and ended
\* with the output path a directory, its documents written and, when it was
\* the second call of its kind, the directories as they were
EnsuredDirectory ==
    /\ call.raised \notin FileSystemErrors
    /\ call.raised = None =>
          /\ PathExists(fs, OutPath)
          /\ call.before.dirs \subseteq fs.dirs
          /\ DocumentsWritten
          /\ call.again => fs.dirs = call.before.dirs

\* C12 as stated: each of write_reactors, write_deployment and
\* render_cyclus, called with an output path that does not exist, creates
\* it and writes its documents, and called with one that exists succeeds
\* as well and leaves the directories the same.
C12_EveryEmitterEnsuresItsDirectory ==
    (/\ call.fn \in {"write_reactors", "write_deployment", "render_cyclus"}
     /\ PathAbsent(call.before, OutPath) \/ PathExists(call.before, OutPath)) =>
        EnsuredDirectory

\* what does hold: C12 for write_reactors and write_deployment, the two
\* that call mkdir
C12_HoldsForWriteReactorsAndWriteDeployment ==
    (/\ call.fn \in {"write_reactors", "write_deployment"}
     /\ PathAbsent(call.before, OutPath) \/ PathExists(call.before, OutPath)) =>
        EnsuredDirectory

\* render_cyclus does so where the output path exists
C12_RenderCyclusNeedsItsDirectory ==
    call.fn = "render_cyclus" =>
        /\ PathExists(call.before, OutPath) => (call.raised = None /\ EnsuredDirectory)
        /\ PathAbsent(call.before, OutPath) =>
               (call.raised = FileNotFoundError /\ fs = call.before)

\* write_reactors wrote two documents below a path of two directories
\* that was not there
C12_WriteReactorsMadeItsPath ==
    /\ call.fn = "write_reactors" /\ call.raised = None
    /\ PathAbsent(call.before, OutPath)
    /\ Len(path_parts(OutPath)) = 2
    /\ Cardinality(DOMAIN fs.files) = 2

====
